---- MODULE Spec2Model ----
(***************************************************************************)
(* Model of the EvidenceChain ledger (contracts/EvidenceChain.sol): the    *)
(* contract storage, its two transactions, its view functions and the      *)
(* getters Solidity generates for its public mappings.  A Solidity string  *)
(* is a sequence of one-character strings.  A call that reverts leaves     *)
(* storage and the event log as they were.  The chain executes calls one   *)
(* at a time; `last` is the outcome handed to the caller (the revert       *)
(* reason or the returned values) until the caller has taken it.  A second *)
(* specification, SpecConc, has accounts send their transactions at the    *)
(* same time: `pool` holds the sent transactions that are not mined yet    *)
(* and `receipts` the outcome each account got.                            *)
(***************************************************************************)
EXTENDS Naturals, Integers, Sequences, FiniteSets, TLC

VARIABLES evidences, custodyChain, evidenceExists, log, okAppends, now, last,
          pool, receipts,
          script, currentSession, disabled, pending, intervals, received,
          alerted, clicks, handled

vars ==
  <<evidences, custodyChain, evidenceExists, log, okAppends, now, last,
    pool, receipts,
    script, currentSession, disabled, pending, intervals, received,
    alerted, clicks, handled>>
ledger == <<evidences, custodyChain, evidenceExists, log>>
mempool == <<pool, receipts>>
page == <<script, currentSession, disabled, pending, intervals, received,
          alerted, clicks, handled>>

----------------------------------------------------------------------------
(* Bounds of the model: the number of transactions that take effect, the  *)
(* number of distinct block timestamps, and the width of the digest       *)

MaxLog == 3
MaxTime == 2

(* Handler invocations started from the page, and the ticks of a progress *)
(* timer until its bar is full                                            *)
MaxClicks == 3
MaxProgress == 2
DigestBits == 20

(* Program constants *)

HashLen == 64

----------------------------------------------------------------------------
(* Strings *)

Rep(c, n) == [i \in 1..n |-> c]

EMPTY == <<>>
ID1 == <<"E", "V", "D", "-", "1">>
ID2 == <<"E", "V", "D", "-", "2">>
INV1 == <<"I", "N", "V", "1">>
ACT1 == <<"c", "o", "l">>
ACT2 == <<"a", "n", "a">>
REM1 == <<"o", "k">>
OS1 == <<"l", "i", "n">>
FT1 == <<"d", "i", "s", "k">>
TOOLS1 == <<"f", "l", "s">>
RegisteredRemark ==
  <<"E","v","i","d","e","n","c","e"," ","r","e","g","i","s","t","e","r","e","d">>

HA == Rep("a", HashLen)
HUpper == Rep("A", HashLen)
HNonHex == Rep("g", HashLen)
HShort == Rep("a", HashLen - 1)
HLong == Rep("a", HashLen + 1)
HOneOff == [HA EXCEPT ![HashLen] = "b"]

(* The inputs of the calls *)

Ids == {EMPTY, ID1, ID2}
ReadIds == {ID1, ID2}
RegHashes == {HA, HNonHex, HShort}
CandidateHashes == {HA, HUpper, HOneOff, HShort, HLong}
Investigators == {EMPTY, INV1}
RegActions == {ACT1}
Actions == {EMPTY, ACT2}
Remarks == {EMPTY, REM1}
Indexes == 0..MaxLog

(* Revert reasons of the contract, and the marker of a call that returned *)

OK == "ok"
ErrNotExist == "Evidence does not exist"
ErrAlready == "Evidence already registered"
ErrEmptyId == "Evidence ID cannot be empty"
ErrHash == "Invalid SHA-256 hash"
ErrInvestigator == "Investigator ID cannot be empty"
ErrAction == "Action cannot be empty"
ErrIndex == "Index out of bounds"
ErrGetter == "revert without reason"
NoRet == [none |-> TRUE]

----------------------------------------------------------------------------
(* bytes(s), abi.encodePacked(s) and keccak256 *)

ASCII(c) ==
  CASE c = "a" -> 97 [] c = "b" -> 98 [] c = "c" -> 99 [] c = "d" -> 100
    [] c = "e" -> 101 [] c = "f" -> 102 [] c = "g" -> 103 [] c = "i" -> 105
    [] c = "k" -> 107 [] c = "l" -> 108 [] c = "n" -> 110 [] c = "o" -> 111
    [] c = "r" -> 114 [] c = "s" -> 115 [] c = "t" -> 116 [] c = "v" -> 118
    [] c = "A" -> 65 [] c = "D" -> 68 [] c = "E" -> 69 [] c = "I" -> 73
    [] c = "N" -> 78 [] c = "V" -> 86
    [] c = "0" -> 48 [] c = "1" -> 49 [] c = "2" -> 50
    [] c = "-" -> 45 [] c = " " -> 32

Strings == Ids \cup RegHashes \cup CandidateHashes

encode(s) == [i \in 1..Len(s) |-> ASCII(s[i])]

(* the encodings of the strings the calls are made with, computed once *)
encodeTable == {<<s, encode(s)>> : s \in Strings}

abiEncodePacked(s) ==
  IF s \in Strings THEN (CHOOSE p \in encodeTable : p[1] = s)[2]
  ELSE encode(s)

bytesLength(s) == Len(abiEncodePacked(s))

(* keccak256 with the digest narrowed to DigestBits bits.  The bytes are   *)
(* mixed pairwise up a balanced tree, then with the length of the input.  *)
DigestMod == 2 ^ DigestBits - 3

RECURSIVE mix(_, _, _)
mix(bs, lo, hi) ==
  IF lo = hi THEN (bs[lo] * 131 + 7) % DigestMod
  ELSE LET mid == (lo + hi) \div 2
       IN  (mix(bs, lo, mid) * 31 + mix(bs, mid + 1, hi) * 17 + 3) % DigestMod

digest(bs) ==
  IF Len(bs) = 0 THEN 5
  ELSE (mix(bs, 1, Len(bs)) * 13 + Len(bs)) % DigestMod

(* the digests of those encodings, computed once *)
digestTable == {<<p[2], digest(p[2])>> : p \in encodeTable}

keccak256(bs) ==
  IF \E p \in digestTable : p[1] = bs
    THEN (CHOOSE p \in digestTable : p[1] = bs)[2]
  ELSE digest(bs)

----------------------------------------------------------------------------
(* Storage *)

DefaultEvidence ==
  [evidenceId |-> EMPTY, evidenceHash |-> EMPTY, timestamp |-> 0,
   osSource |-> EMPTY, investigatorId |-> EMPTY, action |-> EMPTY,
   forensicType |-> EMPTY, toolsUsed |-> EMPTY, exists |-> FALSE]

Idle == [op |-> "none", args |-> NoRet, result |-> OK, ret |-> NoRet]

(* The accounts that send transactions at the same time, and the receipt  *)
(* slot of an account whose transaction is not mined yet                  *)
Writers == {"w1", "w2", "w3"}

NoReceipt == [call |-> NoRet, result |-> "pending", timestamp |-> 0]

(* The page of the web interface: its script exists in two versions, the  *)
(* second one with a command log next to the progress bar.                *)
Scripts == {"main.js", "web3-main.js"}

Buttons == {"startBtn", "blockchainBtn", "reportBtn"}

NoAlert == "none"

NoResponse == [fn |-> "none", id |-> 0, resp |-> "none"]

(* let currentSession = null, and the DOMContentLoaded listener has sent  *)
(* the session-status request.  The markup decides which buttons start    *)
(* disabled: the start button is enabled, the report button is not, and   *)
(* the register button starts as reg says.                                *)
InitPage(s, reg) ==
  /\ script = s
  /\ currentSession = FALSE
  /\ disabled = [b \in Buttons |->
                   CASE b = "startBtn" -> FALSE
                     [] b = "blockchainBtn" -> reg
                     [] b = "reportBtn" -> TRUE]
  /\ pending = {[id |-> 0, fn |-> "checkSessionStatus"]}
  /\ intervals = {}
  /\ received = {}
  /\ alerted = NoAlert
  /\ clicks = 0
  /\ handled = NoResponse

(* The freshly deployed contract; block.timestamp is a Unix time, so the  *)
(* clock starts above the zero of an unset timestamp slot.                *)
Init ==
  /\ evidences = [id \in Ids |-> DefaultEvidence]
  /\ custodyChain = [id \in Ids |-> <<>>]
  /\ evidenceExists = [id \in Ids |-> FALSE]
  /\ log = <<>>
  /\ okAppends = [id \in Ids |-> <<>>]
  /\ now = 1
  /\ last = Idle
  /\ pool = {}
  /\ receipts = [w \in Writers |-> NoReceipt]
  /\ InitPage("main.js", TRUE)

Outcome(op, args, result, ret) ==
  [op |-> op, args |-> args, result |-> result,
   ret |-> IF result = OK THEN ret ELSE NoRet]

----------------------------------------------------------------------------
(* modifier evidenceExistsModifier *)

(* the modifier left off *)
evidenceExistsModifierOff(exists, id) == OK

evidenceExistsModifier(exists, id) ==
  IF exists[id] THEN OK ELSE ErrNotExist

----------------------------------------------------------------------------
(* registerEvidence *)

(* without the first require *)
registerEvidenceRequireNoDup(exists, id, hash) ==
  IF ~(bytesLength(id) > 0) THEN ErrEmptyId
  ELSE IF ~(bytesLength(hash) = HashLen) THEN ErrHash
  ELSE OK

(* without the second require *)
registerEvidenceRequireNoEmpty(exists, id, hash) ==
  IF exists[id] THEN ErrAlready
  ELSE IF ~(bytesLength(hash) = HashLen) THEN ErrHash
  ELSE OK

(* the three requires in the opposite order *)
registerEvidenceRequireHashFirst(exists, id, hash) ==
  IF ~(bytesLength(hash) = HashLen) THEN ErrHash
  ELSE IF ~(bytesLength(id) > 0) THEN ErrEmptyId
  ELSE IF exists[id] THEN ErrAlready
  ELSE OK

registerEvidenceRequire(exists, id, hash) ==
  IF exists[id] THEN ErrAlready
  ELSE IF ~(bytesLength(id) > 0) THEN ErrEmptyId
  ELSE IF ~(bytesLength(hash) = HashLen) THEN ErrHash
  ELSE OK

(* osSource and forensicType filled from each other's argument *)
newEvidenceSwapped(id, hash, ts, os, inv, act, ft, tools) ==
  [evidenceId |-> id, evidenceHash |-> hash, timestamp |-> ts,
   osSource |-> ft, investigatorId |-> inv, action |-> act,
   forensicType |-> os, toolsUsed |-> tools, exists |-> TRUE]

newEvidence(id, hash, ts, os, inv, act, ft, tools) ==
  [evidenceId |-> id, evidenceHash |-> hash, timestamp |-> ts,
   osSource |-> os, investigatorId |-> inv, action |-> act,
   forensicType |-> ft, toolsUsed |-> tools, exists |-> TRUE]

(* the fixed text stored as the action, the caller's action as the remarks *)
initialCustodyEventMixed(ts, inv, act) ==
  [timestamp |-> ts, investigatorId |-> inv, action |-> RegisteredRemark,
   remarks |-> act]

(* the first event left without the block's time *)
initialCustodyEventUnstamped(ts, inv, act) ==
  [timestamp |-> 0, investigatorId |-> inv, action |-> act,
   remarks |-> RegisteredRemark]

initialCustodyEvent(ts, inv, act) ==
  [timestamp |-> ts, investigatorId |-> inv, action |-> act,
   remarks |-> RegisteredRemark]

(* the new event put in front *)
pushFront(chain, ev) == <<ev>> \o chain

(* the new event stored twice *)
pushTwice(chain, ev) == Append(Append(chain, ev), ev)

(* the new event not stored *)
pushDropped(chain, ev) == chain

push(chain, ev) == Append(chain, ev)

(* An indexed string argument of an event is logged as a topic: one        *)
(* 32-byte word, the keccak256 of the string's bytes, not the string.      *)
indexedString(s) == <<keccak256(abiEncodePacked(s))>>

EvidenceRegistered(id, hash, ts, inv) ==
  [event |-> "EvidenceRegistered",
   evidenceId |-> indexedString(id),
   evidenceHash |-> hash, timestamp |-> ts, investigatorId |-> inv]

RegisterEvidence ==
  /\ last = Idle
  /\ Len(log) < MaxLog
  /\ \E id \in Ids, hash \in RegHashes, inv \in Investigators,
        act \in RegActions :
       LET args == [evidenceId |-> id, evidenceHash |-> hash,
                    osSource |-> OS1, investigatorId |-> inv, action |-> act,
                    forensicType |-> FT1, toolsUsed |-> TOOLS1]
           r == registerEvidenceRequire(evidenceExists, id, hash)
       IN  /\ IF r = OK
              THEN /\ evidences' = [evidences EXCEPT ![id] =
                        newEvidence(id, hash, now, OS1, inv, act, FT1, TOOLS1)]
                   /\ evidenceExists' = [evidenceExists EXCEPT ![id] = TRUE]
                   /\ custodyChain' = [custodyChain EXCEPT ![id] =
                        push(@, initialCustodyEvent(now, inv, act))]
                   /\ log' = Append(log, EvidenceRegistered(id, hash, now, inv))
              ELSE UNCHANGED ledger
           /\ last' = Outcome("registerEvidence", args, r, NoRet)
  /\ UNCHANGED <<okAppends, now, mempool, page>>

----------------------------------------------------------------------------
(* addCustodyEvent *)

(* without the require on _action *)
addCustodyEventRequireNoAction(exists, id, inv, act) ==
  IF evidenceExistsModifier(exists, id) # OK
    THEN evidenceExistsModifier(exists, id)
  ELSE IF ~(bytesLength(inv) > 0) THEN ErrInvestigator
  ELSE OK

addCustodyEventRequire(exists, id, inv, act) ==
  IF evidenceExistsModifier(exists, id) # OK
    THEN evidenceExistsModifier(exists, id)
  ELSE IF ~(bytesLength(inv) > 0) THEN ErrInvestigator
  ELSE IF ~(bytesLength(act) > 0) THEN ErrAction
  ELSE OK

(* action and remarks stored in each other's field *)
custodyEventSwapped(ts, inv, act, rem) ==
  [timestamp |-> ts, investigatorId |-> inv, action |-> rem, remarks |-> act]

(* the event left without the block's time *)
custodyEventUnstamped(ts, inv, act, rem) ==
  [timestamp |-> 0, investigatorId |-> inv, action |-> act, remarks |-> rem]

custodyEvent(ts, inv, act, rem) ==
  [timestamp |-> ts, investigatorId |-> inv, action |-> act, remarks |-> rem]

(* the investigator id and the action logged in each other's place *)
CustodyTransferredSwapped(id, inv, act, ts) ==
  [event |-> "CustodyTransferred",
   evidenceId |-> indexedString(id),
   investigatorId |-> act, action |-> inv, timestamp |-> ts]

CustodyTransferred(id, inv, act, ts) ==
  [event |-> "CustodyTransferred",
   evidenceId |-> indexedString(id),
   investigatorId |-> inv, action |-> act, timestamp |-> ts]

AddCustodyEvent ==
  /\ last = Idle
  /\ Len(log) < MaxLog
  /\ \E id \in Ids, inv \in Investigators, act \in Actions, rem \in Remarks :
       LET args == [evidenceId |-> id, investigatorId |-> inv, action |-> act,
                    remarks |-> rem]
           r == addCustodyEventRequire(evidenceExists, id, inv, act)
       IN  /\ IF r = OK
              THEN /\ custodyChain' = [custodyChain EXCEPT ![id] =
                        push(@, custodyEvent(now, inv, act, rem))]
                   /\ log' = Append(log, CustodyTransferred(id, inv, act, now))
                   /\ okAppends' = [okAppends EXCEPT ![id] =
                        Append(@, [investigatorId |-> inv, action |-> act,
                                   remarks |-> rem])]
                   /\ UNCHANGED <<evidences, evidenceExists>>
              ELSE UNCHANGED <<ledger, okAppends>>
           /\ last' = Outcome("addCustodyEvent", args, r, NoRet)
  /\ UNCHANGED <<now, mempool, page>>

----------------------------------------------------------------------------
(* The view functions, as functions of the storage they read *)

getEvidence(evs, exists, id) ==
  LET r == evidenceExistsModifier(exists, id)
      evidence == evs[id]
  IN  Outcome("getEvidence", [evidenceId |-> id], r,
              [evidenceHash |-> evidence.evidenceHash,
               timestamp |-> evidence.timestamp,
               osSource |-> evidence.osSource,
               investigatorId |-> evidence.investigatorId,
               action |-> evidence.action,
               forensicType |-> evidence.forensicType,
               toolsUsed |-> evidence.toolsUsed])

getCustodyChainLength(chains, exists, id) ==
  LET r == evidenceExistsModifier(exists, id)
  IN  Outcome("getCustodyChainLength", [evidenceId |-> id], r,
              Len(chains[id]))

(* the bound on _index checked before the existence of the id *)
getCustodyEventIndexFirst(chains, exists, id, index) ==
  LET m == evidenceExistsModifier(exists, id)
      r == IF ~(index < Len(chains[id])) THEN ErrIndex
           ELSE IF m # OK THEN m
           ELSE OK
  IN  Outcome("getCustodyEvent", [evidenceId |-> id, index |-> index], r,
              IF r = OK THEN chains[id][index + 1] ELSE NoRet)

(* _index is 0-based; a TLA+ sequence is 1-based *)
getCustodyEvent(chains, exists, id, index) ==
  LET m == evidenceExistsModifier(exists, id)
      r == IF m # OK THEN m
           ELSE IF ~(index < Len(chains[id])) THEN ErrIndex
           ELSE OK
  IN  Outcome("getCustodyEvent", [evidenceId |-> id, index |-> index], r,
              IF r = OK THEN chains[id][index + 1] ELSE NoRet)

(* only the first half of the two strings compared *)
hashEqualsHalf(stored, hash) ==
  keccak256(abiEncodePacked(SubSeq(stored, 1, HashLen \div 2)))
    = keccak256(abiEncodePacked(SubSeq(hash, 1, HashLen \div 2)))

hashEquals(stored, hash) ==
  keccak256(abiEncodePacked(stored)) = keccak256(abiEncodePacked(hash))

verifyEvidenceHash(evs, exists, id, hash) ==
  LET r == evidenceExistsModifier(exists, id)
  IN  Outcome("verifyEvidenceHash", [evidenceId |-> id, hash |-> hash], r,
              hashEquals(evs[id].evidenceHash, hash))

GetEvidence ==
  /\ last = Idle
  /\ \E id \in ReadIds : last' = getEvidence(evidences, evidenceExists, id)
  /\ UNCHANGED <<ledger, okAppends, now, mempool, page>>

GetCustodyChainLength ==
  /\ last = Idle
  /\ \E id \in ReadIds :
       last' = getCustodyChainLength(custodyChain, evidenceExists, id)
  /\ UNCHANGED <<ledger, okAppends, now, mempool, page>>

GetCustodyEvent ==
  /\ last = Idle
  /\ \E id \in ReadIds, index \in Indexes :
       last' = getCustodyEvent(custodyChain, evidenceExists, id, index)
  /\ UNCHANGED <<ledger, okAppends, now, mempool, page>>

(* a verification that leaves a trace in the event log *)
VerifyEvidenceHashLogging ==
  /\ last = Idle
  /\ \E id \in ReadIds, hash \in CandidateHashes :
       /\ last' = verifyEvidenceHash(evidences, evidenceExists, id, hash)
       /\ log' = IF last'.result = OK /\ Len(log) < MaxLog
                   THEN Append(log, CustodyTransferred(id, EMPTY, EMPTY, now))
                   ELSE log
  /\ UNCHANGED <<evidences, custodyChain, evidenceExists, okAppends, now,
                 mempool, page>>

VerifyEvidenceHash ==
  /\ last = Idle
  /\ \E id \in ReadIds, hash \in CandidateHashes :
       last' = verifyEvidenceHash(evidences, evidenceExists, id, hash)
  /\ UNCHANGED <<ledger, okAppends, now, mempool, page>>

----------------------------------------------------------------------------
(* The getters of the public mappings *)

evidencesGetter(evs, id) ==
  Outcome("evidences", [evidenceId |-> id], OK, evs[id])

custodyChainGetter(chains, id, index) ==
  LET r == IF index < Len(chains[id]) THEN OK ELSE ErrGetter
  IN  Outcome("custodyChain", [evidenceId |-> id, index |-> index], r,
              IF r = OK THEN chains[id][index + 1] ELSE NoRet)

evidenceExistsGetter(exists, id) ==
  Outcome("evidenceExists", [evidenceId |-> id], OK, exists[id])

EvidencesGetter ==
  /\ last = Idle
  /\ \E id \in ReadIds : last' = evidencesGetter(evidences, id)
  /\ UNCHANGED <<ledger, okAppends, now, mempool, page>>

CustodyChainGetter ==
  /\ last = Idle
  /\ \E id \in ReadIds, index \in Indexes :
       last' = custodyChainGetter(custodyChain, id, index)
  /\ UNCHANGED <<ledger, okAppends, now, mempool, page>>

EvidenceExistsGetter ==
  /\ last = Idle
  /\ \E id \in ReadIds : last' = evidenceExistsGetter(evidenceExists, id)
  /\ UNCHANGED <<ledger, okAppends, now, mempool, page>>

----------------------------------------------------------------------------
(* The caller takes the outcome of its call *)
Return ==
  /\ last # Idle
  /\ last' = Idle
  /\ UNCHANGED <<ledger, okAppends, now, mempool, page>>

(* A later block: block.timestamp never decreases.  A block that holds no  *)
(* transaction of this contract leaves no trace in it, so the clock moves  *)
(* on only from a block that holds one.                                    *)
Tick ==
  /\ last = Idle
  /\ now < MaxTime
  /\ \E i \in 1..Len(log) : log[i].timestamp = now
  /\ now' = now + 1
  /\ UNCHANGED <<ledger, okAppends, last, mempool, page>>

Next ==
  \/ RegisterEvidence
  \/ AddCustodyEvent
  \/ GetEvidence
  \/ GetCustodyChainLength
  \/ GetCustodyEvent
  \/ VerifyEvidenceHash
  \/ EvidencesGetter
  \/ CustodyChainGetter
  \/ EvidenceExistsGetter
  \/ Return
  \/ Tick

Spec == Init /\ [][Next]_vars

----------------------------------------------------------------------------
(* The two transactions as functions of the storage and event log they   *)
(* run on and of the block's time: the revert reason or OK, and the       *)
(* storage and log they leave                                             *)

Storage ==
  [evidences |-> evidences, custodyChain |-> custodyChain,
   evidenceExists |-> evidenceExists, log |-> log]

registerEvidence(st, ts, id, hash, os, inv, act, ft, tools) ==
  LET r == registerEvidenceRequire(st.evidenceExists, id, hash)
  IN  [result |-> r,
       st |-> IF r = OK
                THEN [evidences |-> [st.evidences EXCEPT ![id] =
                        newEvidence(id, hash, ts, os, inv, act, ft, tools)],
                      evidenceExists |->
                        [st.evidenceExists EXCEPT ![id] = TRUE],
                      custodyChain |-> [st.custodyChain EXCEPT ![id] =
                        push(@, initialCustodyEvent(ts, inv, act))],
                      log |-> Append(st.log,
                                     EvidenceRegistered(id, hash, ts, inv))]
                ELSE st]

(* the event pushed onto the custody list of every registered id *)
addCustodyEventShared(st, ts, id, inv, act, rem) ==
  LET r == addCustodyEventRequire(st.evidenceExists, id, inv, act)
  IN  [result |-> r,
       st |-> IF r = OK
                THEN [st EXCEPT
                        !.custodyChain = [i \in Ids |->
                          IF st.evidenceExists[i]
                            THEN push(st.custodyChain[i],
                                      custodyEvent(ts, inv, act, rem))
                            ELSE st.custodyChain[i]],
                        !.log = Append(@, CustodyTransferred(id, inv, act, ts))]
                ELSE st]

addCustodyEvent(st, ts, id, inv, act, rem) ==
  LET r == addCustodyEventRequire(st.evidenceExists, id, inv, act)
  IN  [result |-> r,
       st |-> IF r = OK
                THEN [st EXCEPT
                        !.custodyChain[id] =
                          push(@, custodyEvent(ts, inv, act, rem)),
                        !.log = Append(@, CustodyTransferred(id, inv, act, ts))]
                ELSE st]

(* A call of one of the two transactions, named by its function *)
execute(st, ts, call) ==
  IF call.op = "registerEvidence"
    THEN registerEvidence(st, ts, call.evidenceId, call.evidenceHash, OS1,
                          call.investigatorId, call.action, FT1, TOOLS1)
    ELSE addCustodyEvent(st, ts, call.evidenceId, call.investigatorId,
                         call.action, call.remarks)

----------------------------------------------------------------------------
(* Transactions sent at the same time.  Each account sends one write; the *)
(* sent transactions wait in the pool in no order; the chain takes any    *)
(* one of them and runs it to its end before it takes the next, and the   *)
(* account gets the receipt: the outcome and the time of the block.       *)

PoolCalls ==
  {[op |-> "registerEvidence", evidenceId |-> id, evidenceHash |-> hash,
    investigatorId |-> INV1, action |-> ACT1, remarks |-> EMPTY] :
      id \in ReadIds, hash \in {HA, HNonHex}}
  \cup
  {[op |-> "addCustodyEvent", evidenceId |-> id, evidenceHash |-> EMPTY,
    investigatorId |-> INV1, action |-> ACT2, remarks |-> REM1] :
      id \in ReadIds}

Submit ==
  /\ last = Idle
  /\ \E w \in Writers, call \in PoolCalls :
       /\ receipts[w] = NoReceipt
       /\ \A t \in pool : t.writer # w
       /\ pool' = pool \cup {[writer |-> w, call |-> call]}
  /\ UNCHANGED <<ledger, okAppends, now, last, receipts, page>>

Mine ==
  /\ last = Idle
  /\ \E t \in pool :
       LET out == execute(Storage, now, t.call)
           id == t.call.evidenceId
       IN  /\ evidences' = out.st.evidences
           /\ custodyChain' = out.st.custodyChain
           /\ evidenceExists' = out.st.evidenceExists
           /\ log' = out.st.log
           /\ okAppends' =
                IF out.result = OK /\ t.call.op = "addCustodyEvent"
                  THEN [okAppends EXCEPT ![id] =
                          Append(@, [investigatorId |-> t.call.investigatorId,
                                     action |-> t.call.action,
                                     remarks |-> t.call.remarks])]
                  ELSE okAppends
           /\ pool' = pool \ {t}
           /\ receipts' = [receipts EXCEPT ![t.writer] =
                [call |-> t.call, result |-> out.result, timestamp |-> now]]
  /\ UNCHANGED <<now, last, page>>

NextConc ==
  \/ Submit
  \/ Mine
  \/ Tick

SpecConc == Init /\ [][NextConc]_vars

----------------------------------------------------------------------------
(* The read paths of the web client.  verifyEvidenceOnChain                *)
(* (web3-integration) reads the contract through the wallet; verifyEvidence*)
(* (main.js) posts the id and the hash to /api/verify-evidence and shows   *)
(* the answer.  The server behind /api/verify-evidence is not part of the  *)
(* sources at hand: it is taken from the API reference and asks the        *)
(* contract's verifyEvidenceHash.                                          *)

(* What the browser's wallet answers: whether window.ethereum is there,   *)
(* whether the user grants an account, the network it is on (or a failed  *)
(* eth_chainId request), and whether a switch to Sepolia goes through     *)
Wallets ==
  [installed : BOOLEAN, account : BOOLEAN,
   network : {"Sepolia", "Mainnet", "failed"}, switched : BOOLEAN]

(* with an appendCustody call recording the access *)
verifyEvidenceOnChainRecording(evs, exists, wallet, id) ==
  [contractCalls |-> <<"getEvidence", "addCustodyEvent">>,
   value |-> getEvidence(evs, exists, id)]

(* contractCalls: the contract methods invoked; value: what is returned   *)
(* (Idle stands for null)                                                 *)
verifyEvidenceOnChain(evs, exists, wallet, id) ==
  IF ~wallet.installed THEN [contractCalls |-> <<>>, value |-> Idle]
  ELSE IF ~wallet.account THEN [contractCalls |-> <<>>, value |-> Idle]
  ELSE IF wallet.network = "failed"
    THEN [contractCalls |-> <<>>, value |-> Idle]
  ELSE IF wallet.network # "Sepolia" /\ ~wallet.switched
    THEN [contractCalls |-> <<>>, value |-> Idle]
  ELSE LET evidence == getEvidence(evs, exists, id)
       IN  [contractCalls |-> <<"getEvidence">>,
            value |-> IF evidence.result = OK THEN evidence ELSE Idle]

VerifyEvidenceOnChain ==
  /\ last = Idle
  /\ \E id \in ReadIds, wallet \in Wallets :
       LET r == verifyEvidenceOnChain(evidences, evidenceExists, wallet, id)
           sends == {k \in 1..Len(r.contractCalls) :
                       r.contractCalls[k] = "addCustodyEvent"}
           out == addCustodyEvent(Storage, now, id, INV1, ACT2, EMPTY)
       IN  /\ last' = [op |-> "verifyEvidenceOnChain",
                       args |-> [evidenceId |-> id],
                       result |-> IF r.value = Idle THEN "null" ELSE OK,
                       ret |-> r]
           /\ IF sends # {} /\ Len(log) < MaxLog
                THEN /\ evidences' = out.st.evidences
                     /\ custodyChain' = out.st.custodyChain
                     /\ evidenceExists' = out.st.evidenceExists
                     /\ log' = out.st.log
                ELSE UNCHANGED ledger
  /\ UNCHANGED <<okAppends, now, mempool, page>>

(* String.prototype.trim, for the space character *)
trim(s) ==
  LET inked == {i \in 1..Len(s) : s[i] # " "}
  IN  IF inked = {} THEN <<>>
      ELSE SubSeq(s, CHOOSE i \in inked : \A j \in inked : i <= j,
                     CHOOSE i \in inked : \A j \in inked : i >= j)

(* what the user types into the two fields *)
TypedIds == {EMPTY, <<" ">>, ID1, <<" ">> \o ID2 \o <<" ">>}
TypedHashes == {EMPTY, HA, HOneOff \o <<" ">>}

(* POST /api/verify-evidence, from the API reference *)
apiVerifyEvidence(evs, exists, id, hash) ==
  LET v == verifyEvidenceHash(evs, exists, id, hash)
  IN  IF v.result = OK
        THEN [status |-> "success", is_valid |-> v.ret,
              error |-> "",
              message |-> IF v.ret THEN "Hash verified successfully"
                                   ELSE "Hash mismatch"]
        ELSE [status |-> "error", is_valid |-> FALSE, error |-> v.result,
              message |-> ""]

(* every answer that is not a verified one shown as a failed verification *)
verifyResultLoose(data) ==
  IF data.status = "success" /\ data.is_valid
    THEN [className |-> "result-box success", heading |-> "Evidence Verified",
          text |-> data.message]
    ELSE [className |-> "result-box error", heading |-> "Verification Failed",
          text |-> data.message]

(* the result box for a response of /api/verify-evidence *)
verifyResult(data) ==
  IF data.status = "success"
    THEN IF data.is_valid
           THEN [className |-> "result-box success",
                 heading |-> "Evidence Verified", text |-> data.message]
           ELSE [className |-> "result-box error",
                 heading |-> "Verification Failed", text |-> data.message]
    ELSE [className |-> "result-box error", heading |-> "Error",
          text |-> data.error]

(* fetched: whether the request gets an answer (fetch and response.json   *)
(* do not throw)                                                          *)
verifyEvidence(evs, exists, typedId, typedHash, fetched) ==
  LET evidenceId == trim(typedId)
      evidenceHash == trim(typedHash)
  IN  IF evidenceId = EMPTY \/ evidenceHash = EMPTY
        THEN [requests |-> <<>>,
              data |-> NoRet,
              box |-> [className |-> "result-box warning", heading |-> "",
                       text |-> "Please enter both Evidence ID and Hash"]]
      ELSE IF ~fetched
        THEN [requests |-> <<"POST /api/verify-evidence">>,
              data |-> NoRet,
              box |-> [className |-> "result-box error", heading |-> "Error",
                       text |-> "Failed to fetch"]]
      ELSE LET data == apiVerifyEvidence(evs, exists, evidenceId, evidenceHash)
           IN  [requests |-> <<"POST /api/verify-evidence">>,
                data |-> data,
                box |-> verifyResult(data)]

VerifyEvidence ==
  /\ last = Idle
  /\ \E typedId \in TypedIds, typedHash \in TypedHashes, fetched \in BOOLEAN :
       last' = [op |-> "verifyEvidence",
                args |-> [evidenceId |-> trim(typedId), hash |-> trim(typedHash)],
                result |-> OK,
                ret |-> verifyEvidence(evidences, evidenceExists, typedId,
                                       typedHash, fetched)]
  /\ UNCHANGED <<ledger, okAppends, now, mempool, page>>

NextClient ==
  \/ RegisterEvidence
  \/ VerifyEvidenceOnChain
  \/ VerifyEvidence
  \/ Return
  \/ Tick

SpecClient == Init /\ [][NextClient]_vars

----------------------------------------------------------------------------
(* The workflow of the page: startForensics, registerBlockchain,          *)
(* generateReport and checkSessionStatus.  Each handler runs up to its    *)
(* await of fetch in one step and from the settled fetch to its end in    *)
(* another; the steps of different handlers interleave.                   *)

chain == <<ledger, okAppends, now, last, mempool>>

(* What a request can come back with: status 'success' with every field   *)
(* the handler's template reads, status 'success' with such a field       *)
(* missing (the template throws), another status, and a rejected fetch or *)
(* response.json()                                                        *)
Responses == {"success", "malformed", "error", "throw"}

(* GET /api/session-status: an active session with or without a           *)
(* registration, no session, and a rejected fetch                         *)
SessionResponses == {"registered", "active", "no_session", "throw"}

ownButton(fn) ==
  CASE fn = "startForensics" -> "startBtn"
    [] fn = "registerBlockchain" -> "blockchainBtn"
    [] fn = "generateReport" -> "reportBtn"

(* the interval timers a handler starts before its request *)
startedIntervals(s, fn) ==
  CASE fn = "startForensics" ->
         IF s = "main.js" THEN {"progressInterval"}
         ELSE {"commandSimulator", "progressInterval"}
    [] fn = "generateReport" -> {"progressInterval"}
    [] OTHER -> {}

(* a progress timer that clears itself when its bar reaches 90 *)
selfClearing(s, fn, name) ==
  /\ name = "progressInterval"
  /\ ~(s = "web3-main.js" /\ fn = "startForensics")

clearedIntervalsTryOnly(s, fn, resp) ==
  IF resp = "throw" THEN {} ELSE startedIntervals(s, fn)

(* the timers a handler clears once its fetch has settled: after          *)
(* response.json() in the try block, and again in the catch block         *)
clearedIntervals(s, fn, resp) ==
  IF resp = "throw" THEN startedIntervals(s, fn)
  ELSE startedIntervals(s, fn)

enabledButtonsAnyStatus(fn, resp) ==
  CASE fn = "startForensics" /\ resp = "success" -> {"blockchainBtn"}
    [] fn = "registerBlockchain" /\ resp \in {"success", "error"} ->
         {"reportBtn"}
    [] OTHER -> {}

(* the other buttons a handler enables in its success branch, after the   *)
(* template has been rendered                                             *)
enabledButtons(fn, resp) ==
  CASE fn = "startForensics" /\ resp = "success" -> {"blockchainBtn"}
    [] fn = "registerBlockchain" /\ resp = "success" -> {"reportBtn"}
    [] OTHER -> {}

(* currentSession = data is the first statement of startForensics'        *)
(* success branch                                                         *)
sessionAfter(session, fn, resp) ==
  IF fn = "startForensics" /\ resp \in {"success", "malformed"} THEN TRUE
  ELSE session

registerBlockchainGuardOff(session) == TRUE

(* if (!currentSession) { alert(...); return; } *)
registerBlockchainGuard(session) == session

(* a click reaches a handler only while its button is enabled and no      *)
(* alert box is open                                                      *)
clickable(b) ==
  /\ alerted = NoAlert
  /\ ~disabled[b]
  /\ clicks < MaxClicks

(* the handler disables its button, starts its timers and sends its POST *)
begin(fn) ==
  /\ disabled' = [disabled EXCEPT ![ownButton(fn)] = TRUE]
  /\ clicks' = clicks + 1
  /\ pending' = pending \cup {[id |-> clicks + 1, fn |-> fn]}
  /\ intervals' = intervals \cup
       {[call |-> clicks + 1, name |-> n, ticks |-> 0] :
          n \in startedIntervals(script, fn)}
  /\ UNCHANGED <<script, currentSession, received, alerted, handled>>

(* the rest of the handler, from the settled fetch through finally *)
finish(c, resp) ==
  /\ intervals' =
       {t \in intervals :
          ~(t.call = c.id /\ t.name \in clearedIntervals(script, c.fn, resp))}
  /\ currentSession' = sessionAfter(currentSession, c.fn, resp)
  /\ disabled' =
       [b \in Buttons |->
          IF b \in enabledButtons(c.fn, resp) \cup {ownButton(c.fn)}
            THEN FALSE
          ELSE disabled[b]]
  /\ received' =
       IF resp \in {"success", "malformed"}
         THEN received \cup {<<c.fn, "success">>}
       ELSE received
  /\ pending' = pending \ {c}
  /\ handled' = [fn |-> c.fn, id |-> c.id, resp |-> resp]
  /\ UNCHANGED <<script, alerted, clicks>>

StartForensics ==
  /\ clickable("startBtn")
  /\ \E selected \in BOOLEAN :
       IF ~selected
         THEN /\ alerted' = "Please select at least one forensic type"
              /\ UNCHANGED <<script, currentSession, disabled, pending,
                             intervals, received, clicks, handled>>
       ELSE begin("startForensics")
  /\ UNCHANGED chain

StartForensicsResponse ==
  /\ alerted = NoAlert
  /\ \E c \in pending, resp \in Responses :
       /\ c.fn = "startForensics"
       /\ finish(c, resp)
  /\ UNCHANGED chain

RegisterBlockchain ==
  /\ clickable("blockchainBtn")
  /\ IF ~registerBlockchainGuard(currentSession)
       THEN /\ alerted' = "Please run forensics first"
            /\ UNCHANGED <<script, currentSession, disabled, pending,
                           intervals, received, clicks, handled>>
     ELSE begin("registerBlockchain")
  /\ UNCHANGED chain

RegisterBlockchainResponse ==
  /\ alerted = NoAlert
  /\ \E c \in pending, resp \in Responses :
       /\ c.fn = "registerBlockchain"
       /\ finish(c, resp)
  /\ UNCHANGED chain

GenerateReport ==
  /\ clickable("reportBtn")
  /\ begin("generateReport")
  /\ UNCHANGED chain

GenerateReportResponse ==
  /\ alerted = NoAlert
  /\ \E c \in pending, resp \in Responses :
       /\ c.fn = "generateReport"
       /\ finish(c, resp)
  /\ UNCHANGED chain

(* the session-status request sent at DOMContentLoaded comes back *)
CheckSessionStatusResponse ==
  /\ alerted = NoAlert
  /\ \E c \in pending, resp \in SessionResponses :
       /\ c.fn = "checkSessionStatus"
       /\ disabled' =
            [b \in Buttons |->
               IF resp = "registered" /\ b \in {"blockchainBtn", "reportBtn"}
                 THEN FALSE
               ELSE disabled[b]]
       /\ received' =
            IF resp = "registered"
              THEN received \cup {<<c.fn, "blockchain_registered">>}
            ELSE received
       /\ pending' = pending \ {c}
       /\ handled' = [fn |-> c.fn, id |-> c.id, resp |-> resp]
  /\ UNCHANGED <<script, currentSession, intervals, alerted, clicks>>
  /\ UNCHANGED chain

(* a callback of a running interval timer: the bar advances, and is full  *)
(* after MaxProgress ticks                                                *)
IntervalFire ==
  /\ alerted = NoAlert
  /\ \E t \in intervals :
       LET fn == (CHOOSE c \in pending \cup
                     {[id |-> t.call, fn |-> "none"]} : c.id = t.call).fn
           n == IF t.ticks < MaxProgress THEN t.ticks + 1 ELSE t.ticks
       IN  intervals' =
             IF n >= MaxProgress /\ selfClearing(script, fn, t.name)
               THEN intervals \ {t}
             ELSE (intervals \ {t}) \cup {[t EXCEPT !.ticks = n]}
  /\ UNCHANGED <<script, currentSession, disabled, pending, received,
                 alerted, clicks, handled>>
  /\ UNCHANGED chain

(* the user closes the alert box and the handler returns *)
DismissAlert ==
  /\ alerted # NoAlert
  /\ alerted' = NoAlert
  /\ UNCHANGED <<script, currentSession, disabled, pending, intervals,
                 received, clicks, handled>>
  /\ UNCHANGED chain

InitUI ==
  /\ evidences = [id \in Ids |-> DefaultEvidence]
  /\ custodyChain = [id \in Ids |-> <<>>]
  /\ evidenceExists = [id \in Ids |-> FALSE]
  /\ log = <<>>
  /\ okAppends = [id \in Ids |-> <<>>]
  /\ now = 1
  /\ last = Idle
  /\ pool = {}
  /\ receipts = [w \in Writers |-> NoReceipt]
  /\ \E s \in Scripts, reg \in BOOLEAN : InitPage(s, reg)

NextUI ==
  \/ StartForensics
  \/ StartForensicsResponse
  \/ RegisterBlockchain
  \/ RegisterBlockchainResponse
  \/ GenerateReport
  \/ GenerateReportResponse
  \/ CheckSessionStatusResponse
  \/ IntervalFire
  \/ DismissAlert

SpecUI == InitUI /\ [][NextUI]_vars

----------------------------------------------------------------------------
(* Vocabulary of the properties *)

IsPrefix(s, t) == Len(s) <= Len(t) /\ SubSeq(t, 1, Len(s)) = s

HexChars ==
  {"0", "1", "2", "3", "4", "5", "6", "7", "8", "9",
   "a", "b", "c", "d", "e", "f", "A", "B", "C", "D", "E", "F"}

IsHex64(h) == Len(h) = HashLen /\ \A i \in 1..Len(h) : h[i] \in HexChars

AllHashes == RegHashes \cup CandidateHashes

IdOps ==
  {"addCustodyEvent", "getEvidence", "getCustodyChainLength",
   "getCustodyEvent", "verifyEvidenceHash", "evidences", "custodyChain",
   "evidenceExists"}

Called(op) == last = Idle /\ last'.op = op

Answered(op) == last.op = op /\ last.result = OK

----------------------------------------------------------------------------
(* C1: a registerEvidence call on a fresh, non-empty id with a hash of    *)
(* HashLen bytes succeeds and stores that hash; a registerEvidence call   *)
(* on an id that is already registered reverts with "Evidence already     *)
(* registered" whatever hash and metadata it supplies, and storage and    *)
(* the event log are left exactly as they were.                           *)
C1_DuplicateRegistrationRejected ==
  [][Called("registerEvidence") =>
       LET id == last'.args.evidenceId
           hash == last'.args.evidenceHash
       IN  /\ evidenceExists[id] =>
                /\ last'.result = ErrAlready
                /\ ledger' = ledger
           /\ (~evidenceExists[id] /\ Len(id) > 0 /\ Len(hash) = HashLen) =>
                /\ last'.result = OK
                /\ evidenceExists'[id]
                /\ evidences'[id].evidenceHash = hash]_vars

C1_Witness ==
  /\ last.op = "registerEvidence"
  /\ last.result = ErrAlready
  /\ evidenceExists[last.args.evidenceId]
  /\ Len(last.args.evidenceHash) = HashLen
  /\ last.args.evidenceHash # evidences[last.args.evidenceId].evidenceHash
  /\ last.args.investigatorId
       # evidences[last.args.evidenceId].investigatorId

(* C2: once an id is registered, every step keeps it registered and keeps *)
(* its record (hash, timestamp, descriptive fields) as it is, so           *)
(* verifyEvidenceHash answers the same for every candidate afterwards      *)
(* (the answers are compared in the steps that write to either mapping;    *)
(* in the other steps they are computed from the same storage).            *)
C2_RecordImmutable ==
  [][\A id \in Ids :
       evidenceExists[id] =>
         /\ evidenceExists'[id]
         /\ evidences'[id] = evidences[id]
         /\ \/ <<evidences, evidenceExists>>' = <<evidences, evidenceExists>>
            \/ \A h \in AllHashes :
                 verifyEvidenceHash(evidences', evidenceExists', id, h).ret
                   = verifyEvidenceHash(evidences, evidenceExists, id, h).ret]_vars

C2_Witness ==
  \E id \in Ids :
    /\ evidenceExists[id]
    /\ Len(custodyChain[id]) >= 2
    /\ now > evidences[id].timestamp
    /\ last.op = "registerEvidence"
    /\ last.args.evidenceId = id
    /\ last.result = ErrAlready

(* C3: in every step the custody list of every id before the step is a    *)
(* prefix of its custody list after the step.                              *)
C3_CustodyAppendOnly ==
  [][\A id \in Ids : IsPrefix(custodyChain[id], custodyChain'[id])]_vars

C3_Witness ==
  \E id \in Ids :
    /\ Len(custodyChain[id]) >= 3
    /\ custodyChain[id][2] # custodyChain[id][3]

(* C4: for every id the two existence flags agree, and the id is           *)
(* registered exactly when its custody list is non-empty.                  *)
C4_ExistsIffCustody ==
  \A id \in Ids :
    /\ evidenceExists[id] = evidences[id].exists
    /\ evidenceExists[id] <=> Len(custodyChain[id]) > 0

C4_Witness ==
  /\ last.op = "addCustodyEvent"
  /\ last.result = ErrNotExist
  /\ Len(last.args.evidenceId) > 0
  /\ Len(last.args.investigatorId) > 0
  /\ Len(last.args.action) > 0
  /\ \E id \in Ids : evidenceExists[id]

(* C5: right after a successful registerEvidence(id, hash, ...), the       *)
(* record is stored under id with evidenceId = id, getEvidence(id) returns *)
(* that hash, the block time of the registration and the five descriptive  *)
(* fields as supplied, and getCustodyChainLength(id) returns 1.            *)
C5_RegisterThenGet ==
  Answered("registerEvidence") =>
    LET a == last.args
        id == a.evidenceId
        g == getEvidence(evidences, evidenceExists, id)
        n == getCustodyChainLength(custodyChain, evidenceExists, id)
    IN  /\ evidences[id].evidenceId = id
        /\ g.result = OK
        /\ g.ret = [evidenceHash |-> a.evidenceHash, timestamp |-> now,
                    osSource |-> a.osSource,
                    investigatorId |-> a.investigatorId,
                    action |-> a.action, forensicType |-> a.forensicType,
                    toolsUsed |-> a.toolsUsed]
        /\ n.result = OK
        /\ n.ret = 1

C5_Witness ==
  /\ Answered("registerEvidence")
  /\ now > 0
  /\ last.args.investigatorId = INV1
  /\ \E id \in Ids : id # last.args.evidenceId /\ evidenceExists[id]

(* C6: for every registered id, getCustodyChainLength is the number of     *)
(* successful addCustodyEvent calls on it plus 1, and getCustodyEvent at   *)
(* index i >= 1 returns investigatorId, action and remarks of the i-th     *)
(* successful call.                                                        *)
C6_CustodyInCallOrder ==
  \A id \in Ids :
    evidenceExists[id] =>
      /\ getCustodyChainLength(custodyChain, evidenceExists, id).ret
           = Len(okAppends[id]) + 1
      /\ \A i \in 1..Len(okAppends[id]) :
           LET e == getCustodyEvent(custodyChain, evidenceExists, id, i)
           IN  /\ e.result = OK
               /\ [investigatorId |-> e.ret.investigatorId,
                   action |-> e.ret.action, remarks |-> e.ret.remarks]
                    = okAppends[id][i]

C6_Witness ==
  \E id \in Ids :
    /\ Len(okAppends[id]) >= 2
    /\ okAppends[id][1] # okAppends[id][2]
    /\ Answered("addCustodyEvent")

(* C7: for every registered id and every candidate string,                 *)
(* verifyEvidenceHash returns TRUE exactly when the candidate is the       *)
(* stored hash, character for character.                                   *)
C7_VerifyIsStringEquality ==
  \A id \in Ids, h \in AllHashes :
    evidenceExists[id] =>
      LET v == verifyEvidenceHash(evidences, evidenceExists, id, h)
      IN  /\ v.result = OK
          /\ v.ret <=> (h = evidences[id].evidenceHash)

C7_Witness ==
  /\ Answered("verifyEvidenceHash")
  /\ last.ret = FALSE
  /\ last.args.hash = HOneOff
  /\ evidences[last.args.evidenceId].evidenceHash = HA

(* C8 (as claimed): every call that takes an evidence id, other than       *)
(* registerEvidence, made with an id that is not registered, reverts with  *)
(* "Evidence does not exist".                                              *)
C8_UnknownIdAlwaysNotFound ==
  (last.op \in IdOps /\ ~evidenceExists[last.args.evidenceId]) =>
    last.result = ErrNotExist

(* C9 (as claimed): a registerEvidence call whose hash is not HashLen      *)
(* hexadecimal characters does not succeed, and every stored hash is       *)
(* HashLen hexadecimal characters.                                         *)
C9_StoredHashIsHex ==
  /\ (last.op = "registerEvidence" /\ ~IsHex64(last.args.evidenceHash)) =>
       last.result # OK
  /\ \A id \in Ids :
       evidenceExists[id] => IsHex64(evidences[id].evidenceHash)

(* C10: registerEvidence with the empty id reverts with "Evidence ID       *)
(* cannot be empty"; the empty id is never registered, has no custody      *)
(* event and no event in the log, and every stored record carries the      *)
(* non-empty id it is stored under.                                        *)
C10_EmptyIdRejected ==
  /\ (last.op = "registerEvidence" /\ last.args.evidenceId = EMPTY) =>
       last.result = ErrEmptyId
  /\ ~evidenceExists[EMPTY]
  /\ evidences[EMPTY] = DefaultEvidence
  /\ custodyChain[EMPTY] = <<>>
  /\ \A i \in 1..Len(log) :
       log[i].evidenceId # indexedString(EMPTY)
  /\ \A id \in Ids :
       evidenceExists[id] => (evidences[id].evidenceId = id /\ Len(id) > 0)

C10_Witness ==
  /\ last.op = "registerEvidence"
  /\ last.args.evidenceId = EMPTY
  /\ last.result = ErrEmptyId
  /\ Len(last.args.evidenceHash) = HashLen
  /\ Len(log) > 0

----------------------------------------------------------------------------
(* the text "registered" *)
RegisteredAction ==
  <<"r", "e", "g", "i", "s", "t", "e", "r", "e", "d">>

(* C11, as stated: the custody event at index 0 of every registered id has *)
(* the action "registered", whatever action the caller of registerEvidence *)
(* passed.                                                                 *)
C11_InitialActionIsRegistered ==
  \A id \in Ids :
    evidenceExists[id] => custodyChain[id][1].action = RegisteredAction

(* C11, amended: the custody event at index 0 of every registered id has   *)
(* the remarks "Evidence registered" and the action of the record, which   *)
(* is the action the caller of registerEvidence passed.                    *)
C11_InitialEventKeepsCallerAction ==
  /\ \A id \in Ids :
       evidenceExists[id] =>
         /\ custodyChain[id][1].remarks = RegisteredRemark
         /\ custodyChain[id][1].action = evidences[id].action
  /\ Answered("registerEvidence") =>
       custodyChain[last.args.evidenceId][1].action = last.args.action

C11_Witness ==
  /\ Answered("registerEvidence")
  /\ last.args.action # RegisteredAction
  /\ custodyChain[last.args.evidenceId][1].action = last.args.action
  /\ Len(custodyChain[last.args.evidenceId]) = 1

(* C12: a call of addCustodyEvent reverts with "Evidence does not exist"   *)
(* when the id is not registered, and with one of the two "cannot be       *)
(* empty" reasons when the id is registered and the investigator id or the *)
(* action is empty; empty remarks are accepted.  A call that reverts       *)
(* leaves every record, every custody list and the event log as they were. *)
C12_AddCustodyEventRejects ==
  [][Called("addCustodyEvent") =>
       LET a == last'.args
           id == a.evidenceId
           blank == a.investigatorId = EMPTY \/ a.action = EMPTY
       IN  /\ ~evidenceExists[id] => last'.result = ErrNotExist
           /\ (evidenceExists[id] /\ blank) =>
                last'.result \in {ErrInvestigator, ErrAction}
           /\ (evidenceExists[id] /\ ~blank) => last'.result = OK
           /\ last'.result # OK =>
                /\ ledger' = ledger
                /\ okAppends' = okAppends]_vars

C12_Witness ==
  /\ last.op = "addCustodyEvent"
  /\ last.result = ErrAction
  /\ last.args.action = EMPTY
  /\ last.args.investigatorId # EMPTY
  /\ evidenceExists[last.args.evidenceId]
  /\ Len(custodyChain[last.args.evidenceId]) = 2
  /\ custodyChain[last.args.evidenceId][2].remarks = EMPTY

(* C13: a successful call of addCustodyEvent appends exactly one event to  *)
(* the end of the id's custody list, made of the call's investigator id,   *)
(* action and remarks and stamped with the current block time, and leaves  *)
(* the id's record and existence flag as they were.                        *)
C13_AddAppendsOneStampedEvent ==
  [][(Called("addCustodyEvent") /\ last'.result = OK) =>
       LET a == last'.args
           id == a.evidenceId
       IN  /\ custodyChain'[id] =
                Append(custodyChain[id],
                       [timestamp |-> now, investigatorId |-> a.investigatorId,
                        action |-> a.action, remarks |-> a.remarks])
           /\ Len(custodyChain'[id]) = Len(custodyChain[id]) + 1
           /\ evidences'[id] = evidences[id]
           /\ evidenceExists'[id] = evidenceExists[id]]_vars

C13_Witness ==
  /\ Answered("addCustodyEvent")
  /\ LET id == last.args.evidenceId
         n == Len(custodyChain[id])
     IN  /\ n >= 2
         /\ custodyChain[id][n].timestamp = now
         /\ custodyChain[id][n].timestamp > evidences[id].timestamp
         /\ custodyChain[id][n].remarks # custodyChain[id][n].action

(* C14: for a registered id, getCustodyEvent reverts with "Index out of    *)
(* bounds" exactly when the index is at least the length of the id's       *)
(* custody list, and for a smaller index it returns the event stored at    *)
(* that index; for an id that is not registered it reverts with "Evidence  *)
(* does not exist" whatever the index.  An answered call agrees with this. *)
C14_GetCustodyEventBounds ==
  /\ \A id \in Ids, index \in Indexes :
       LET e == getCustodyEvent(custodyChain, evidenceExists, id, index)
           n == Len(custodyChain[id])
       IN  IF evidenceExists[id]
             THEN /\ (e.result = ErrIndex) <=> (index >= n)
                  /\ index < n =>
                       (e.result = OK /\ e.ret = custodyChain[id][index + 1])
             ELSE e.result = ErrNotExist
  /\ last.op = "getCustodyEvent" =>
       LET id == last.args.evidenceId
           index == last.args.index
       IN  /\ (last.result = ErrNotExist) <=> ~evidenceExists[id]
           /\ (last.result = ErrIndex) <=>
                (evidenceExists[id] /\ index >= Len(custodyChain[id]))
           /\ last.result = OK => last.ret = custodyChain[id][index + 1]

C14_Witness ==
  /\ last.op = "getCustodyEvent"
  /\ last.result = ErrIndex
  /\ last.args.index = Len(custodyChain[last.args.evidenceId])
  /\ last.args.index >= 2
  /\ \E id \in ReadIds : ~evidenceExists[id]

(* C15: in every custody list the timestamps never decrease with the       *)
(* index; a record registered while another record already exists has a    *)
(* creation timestamp at least that of the older record; and the creation  *)
(* timestamp of a registered record never changes again.                   *)
C15_TimestampsMonotone ==
  /\ [](\A id \in Ids :
          \A i \in 1..Len(custodyChain[id]) :
            \A j \in i..Len(custodyChain[id]) :
              custodyChain[id][i].timestamp <= custodyChain[id][j].timestamp)
  /\ [][\A b \in Ids :
          IF evidenceExists[b]
            THEN evidences'[b].timestamp = evidences[b].timestamp
            ELSE evidenceExists'[b] =>
                   /\ evidences'[b].timestamp = now
                   /\ \A a \in Ids :
                        evidenceExists[a] =>
                          evidences[a].timestamp <= evidences'[b].timestamp]_vars

C15_Witness ==
  \E a, b \in Ids :
    /\ evidenceExists[a] /\ evidenceExists[b]
    /\ evidences[a].timestamp < evidences[b].timestamp
    /\ Len(custodyChain[a]) = 2
    /\ custodyChain[a][1].timestamp < custodyChain[a][2].timestamp

(* C16, as stated: for every registered record the log holds exactly one   *)
(* EvidenceRegistered event whose evidenceId, evidenceHash, timestamp and  *)
(* investigatorId equal those of the stored record, and the log holds as   *)
(* many EvidenceRegistered events as there are registered records.         *)
C16_RegisteredNotificationCarriesRecord ==
  LET regs == {i \in 1..Len(log) : log[i].event = "EvidenceRegistered"}
      carries(i, id) ==
        /\ log[i].evidenceId = evidences[id].evidenceId
        /\ log[i].evidenceHash = evidences[id].evidenceHash
        /\ log[i].timestamp = evidences[id].timestamp
        /\ log[i].investigatorId = evidences[id].investigatorId
  IN  /\ \A id \in Ids :
           evidenceExists[id] =>
             Cardinality({i \in regs : carries(i, id)}) = 1
      /\ Cardinality(regs) = Cardinality({id \in Ids : evidenceExists[id]})

(* C17: a successful call of addCustodyEvent adds exactly one event to the *)
(* log, a CustodyTransferred under the topic of the call's id whose        *)
(* investigatorId, action and timestamp equal those of the custody event   *)
(* just appended; a reverted call adds none; and in every state the        *)
(* CustodyTransferred events under the topic of an id are, in log order,   *)
(* the id's custody events from index 1 onward.                            *)
C17_CustodyTransferredMatchesList ==
  /\ [][Called("addCustodyEvent") =>
          LET id == last'.args.evidenceId
              n == Len(custodyChain'[id])
          IN  IF last'.result = OK
                THEN /\ Len(log') = Len(log) + 1
                     /\ SubSeq(log', 1, Len(log)) = log
                     /\ log'[Len(log')] =
                          [event |-> "CustodyTransferred",
                           evidenceId |-> indexedString(id),
                           investigatorId |-> custodyChain'[id][n].investigatorId,
                           action |-> custodyChain'[id][n].action,
                           timestamp |-> custodyChain'[id][n].timestamp]
                ELSE log' = log]_vars
  /\ [](\A id \in Ids :
          LET t == indexedString(id)
              notes == SelectSeq(log, LAMBDA e :
                         e.event = "CustodyTransferred" /\ e.evidenceId = t)
              n == Len(custodyChain[id])
          IN  /\ Len(notes) = IF n = 0 THEN 0 ELSE n - 1
              /\ \A k \in 1..Len(notes) :
                   /\ notes[k].investigatorId = custodyChain[id][k + 1].investigatorId
                   /\ notes[k].action = custodyChain[id][k + 1].action
                   /\ notes[k].timestamp = custodyChain[id][k + 1].timestamp)

C17_Witness ==
  /\ Answered("addCustodyEvent")
  /\ Len(custodyChain[last.args.evidenceId]) = 3
  /\ log[2].event = "CustodyTransferred"
  /\ log[3].event = "CustodyTransferred"
  /\ log[3].evidenceId = log[2].evidenceId
  /\ log[3].timestamp > log[2].timestamp
  /\ log[3].investigatorId # log[3].action

(* the storage and log of the freshly deployed contract *)
InitialStorage ==
  [evidences |-> [id \in Ids |-> DefaultEvidence],
   custodyChain |-> [id \in Ids |-> <<>>],
   evidenceExists |-> [id \in Ids |-> FALSE],
   log |-> <<>>]

(* the accounts holding a receipt, and the orders they can be put in *)
Mined == {w \in Writers : receipts[w].result # "pending"}

Orders(S) ==
  {f \in [1..Cardinality(S) -> S] :
     \A i, j \in 1..Cardinality(S) : i # j => f[i] # f[j]}

(* the calls of the receipts run one after the other in the given order,  *)
(* each at the time of its receipt: the storage and log they leave, and   *)
(* whether every call got the outcome its receipt shows                   *)
RECURSIVE replay(_, _, _)
replay(st, order, k) ==
  IF k > Len(order) THEN [st |-> st, agrees |-> TRUE]
  ELSE LET rc == receipts[order[k]]
           out == execute(st, rc.timestamp, rc.call)
           rest == replay(out.st, order, k + 1)
       IN  [st |-> rest.st,
            agrees |-> (out.result = rc.result /\ rest.agrees)]

(* the accounts whose call of op on id was mined with the given outcome *)
Receipts(op, id, result) ==
  {w \in Mined : /\ receipts[w].call.op = op
                 /\ receipts[w].call.evidenceId = id
                 /\ receipts[w].result = result}

(* C18: with register and append transactions sent at the same time and   *)
(* mined in any order, (1) the storage, the log and every receipt are     *)
(* those of the mined calls run one after the other in some order; (2) of  *)
(* the mined registrations of an id exactly one succeeded and every other  *)
(* one reverted with "Evidence already registered"; (3) the custody list   *)
(* of a registered id has 1 + the number of successful appends events;     *)
(* and (4) a registration of an existing id is mined like any other        *)
(* transaction, in one step that reverts and changes nothing, and a        *)
(* transaction in the pool can always be mined.                            *)
C18_SameIdWritesLinearizable ==
  /\ [](/\ \E order \in Orders(Mined) :
             replay(InitialStorage, order, 1) =
               [st |-> Storage, agrees |-> TRUE]
        /\ \A id \in ReadIds :
             LET won == Receipts("registerEvidence", id, OK)
                 lost == Receipts("registerEvidence", id, ErrAlready)
                 tried == {w \in Mined :
                             /\ receipts[w].call.op = "registerEvidence"
                             /\ receipts[w].call.evidenceId = id}
                 added == Receipts("addCustodyEvent", id, OK)
             IN  /\ tried = won \cup lost
                 /\ Cardinality(won) = IF tried = {} THEN 0 ELSE 1
                 /\ evidenceExists[id] <=> won # {}
                 /\ Len(custodyChain[id]) =
                      Cardinality(won) + Cardinality(added)
                 /\ Cardinality(added) = Len(okAppends[id])
        /\ pool # {} => ENABLED Mine)
  /\ [][\A t \in pool :
          (t \notin pool' /\ t.call.op = "registerEvidence"
             /\ evidenceExists[t.call.evidenceId]) =>
            /\ receipts'[t.writer].result = ErrAlready
            /\ ledger' = ledger]_vars

C18_Witness ==
  /\ pool = {}
  /\ Cardinality(Receipts("registerEvidence", ID1, OK)) = 1
  /\ Cardinality(Receipts("registerEvidence", ID1, ErrAlready)) = 1
  /\ Cardinality(Receipts("addCustodyEvent", ID1, OK)) = 1
  /\ \E w, v \in Writers :
       /\ receipts[w].call.op = "registerEvidence"
       /\ receipts[v].call.op = "registerEvidence"
       /\ receipts[w].call.evidenceHash # receipts[v].call.evidenceHash
  /\ Len(custodyChain[ID1]) = 2

(* C19: every state a read can observe holds each id either as never       *)
(* written (default record, flag unset, empty custody list, no event in    *)
(* the log) or as completely written (flag set, the record's fields        *)
(* filled, at least one custody event, the first one stamped like the      *)
(* record, and as many events in the log under the id's topic as there are *)
(* custody events, the first of them an EvidenceRegistered); and a write   *)
(* that reverts leaves records, flags, custody lists and the log unchanged.*)
C19_WritesAllOrNothing ==
  /\ [](\A id \in Ids :
          LET t == indexedString(id)
              notes == SelectSeq(log, LAMBDA e : e.evidenceId = t)
          IN  IF evidenceExists[id]
                THEN /\ evidences[id].exists
                     /\ evidences[id].evidenceId = id
                     /\ evidences[id].timestamp > 0
                     /\ Len(evidences[id].evidenceHash) = HashLen
                     /\ Len(custodyChain[id]) >= 1
                     /\ custodyChain[id][1].timestamp = evidences[id].timestamp
                     /\ Len(notes) = Len(custodyChain[id])
                     /\ notes[1].event = "EvidenceRegistered"
                     /\ \A k \in 2..Len(notes) :
                          notes[k].event = "CustodyTransferred"
                ELSE /\ evidences[id] = DefaultEvidence
                     /\ custodyChain[id] = <<>>
                     /\ notes = <<>>)
  /\ [][(last = Idle
           /\ last'.op \in {"registerEvidence", "addCustodyEvent"}
           /\ last'.result # OK) => ledger' = ledger]_vars

C19_Witness ==
  /\ last.op \in {"registerEvidence", "addCustodyEvent"}
  /\ last.result \in {ErrAlready, ErrAction}
  /\ Len(custodyChain[last.args.evidenceId]) = 2
  /\ \E id \in ReadIds : ~evidenceExists[id]

(* the writes tried on an id, one of them reverting for an empty argument  *)
WritesOn(id) ==
  {[op |-> "registerEvidence", evidenceId |-> id, evidenceHash |-> HA,
    investigatorId |-> INV1, action |-> ACT1, remarks |-> EMPTY],
   [op |-> "addCustodyEvent", evidenceId |-> id, evidenceHash |-> EMPTY,
    investigatorId |-> INV1, action |-> ACT2, remarks |-> REM1],
   [op |-> "addCustodyEvent", evidenceId |-> id, evidenceHash |-> EMPTY,
    investigatorId |-> EMPTY, action |-> ACT2, remarks |-> EMPTY]}

(* the records, flags and custody lists of a storage, timestamps erased *)
Untimed(st) ==
  [evidences |-> [id \in Ids |-> [st.evidences[id] EXCEPT !.timestamp = 0]],
   evidenceExists |-> st.evidenceExists,
   custodyChain |-> [id \in Ids |->
     [k \in 1..Len(st.custodyChain[id]) |->
        [st.custodyChain[id][k] EXCEPT !.timestamp = 0]]]]

(* C20: a registerEvidence or addCustodyEvent call on an id leaves the     *)
(* record, the existence flag and the custody list of every other id as    *)
(* they were; and from every state between two calls, two writes on two    *)
(* different ids, the first run at the current time and the second at the  *)
(* same or the next time, give the same two outcomes and the same records, *)
(* flags and custody lists apart from timestamps whichever runs first     *)
(* (each pair of ids is taken once).                                       *)
C20_RecordsIndependent ==
  /\ [][(last = Idle /\ last'.op \in {"registerEvidence", "addCustodyEvent"}) =>
          LET a == last'.args
              out == IF last'.op = "registerEvidence"
                       THEN registerEvidence(Storage, now, a.evidenceId,
                              a.evidenceHash, a.osSource, a.investigatorId,
                              a.action, a.forensicType, a.toolsUsed)
                       ELSE addCustodyEvent(Storage, now, a.evidenceId,
                              a.investigatorId, a.action, a.remarks)
          IN  /\ last'.result = out.result
              /\ Storage' = out.st
              /\ \A b \in Ids \ {a.evidenceId} :
                   /\ evidences'[b] = evidences[b]
                   /\ evidenceExists'[b] = evidenceExists[b]
                   /\ custodyChain'[b] = custodyChain[b]]_vars
  /\ [](last = Idle =>
          \A a \in Ids, b \in Ids \ {EMPTY} :
            (a # b /\ (a = EMPTY \/ a = ID1)) =>
              \A wa \in WritesOn(a), wb \in WritesOn(b), t \in {now, now + 1} :
                LET a1 == execute(Storage, now, wa)
                    b2 == execute(a1.st, t, wb)
                    b1 == execute(Storage, now, wb)
                    a2 == execute(b1.st, t, wa)
                IN  /\ a1.result = a2.result
                    /\ b1.result = b2.result
                    /\ Untimed(b2.st) = Untimed(a2.st)
                    /\ \A c \in Ids \ {a} :
                         /\ a1.st.evidences[c] = evidences[c]
                         /\ a1.st.evidenceExists[c] = evidenceExists[c]
                         /\ a1.st.custodyChain[c] = custodyChain[c])

C20_Witness ==
  /\ Answered("addCustodyEvent")
  /\ \E b \in Ids \ {last.args.evidenceId} :
       /\ evidenceExists[b]
       /\ evidences[b].timestamp < now
       /\ Len(custodyChain[b]) = 1
       /\ custodyChain[last.args.evidenceId][2].timestamp = now

----------------------------------------------------------------------------
(* the four view functions of the contract *)
ReadOps ==
  {"getEvidence", "getCustodyChainLength", "getCustodyEvent",
   "verifyEvidenceHash"}

(* C21: a call of getEvidence, getCustodyChainLength, getCustodyEvent or   *)
(* verifyEvidenceHash, answered or reverted, leaves every record, flag and *)
(* custody list as they were and adds no event to the log; this holds for  *)
(* a verification whose candidate equals the stored hash and for one whose *)
(* candidate differs.                                                      *)
C21_ReadsChangeNothing ==
  [][(last = Idle /\ last'.op \in ReadOps) =>
       /\ evidences' = evidences
       /\ evidenceExists' = evidenceExists
       /\ custodyChain' = custodyChain
       /\ log' = log]_vars

C21_Witness ==
  /\ Answered("verifyEvidenceHash")
  /\ last.ret = FALSE
  /\ Len(last.args.hash) = HashLen
  /\ Len(custodyChain[last.args.evidenceId]) = 2
  /\ Len(log) = 2

(* C26: in every state, registerEvidence on a registered id reverts with   *)
(* "Evidence already registered" even for a hash of the wrong length;      *)
(* registerEvidence with an empty id and a hash of the wrong length        *)
(* reverts with "Evidence ID cannot be empty"; and addCustodyEvent,        *)
(* getCustodyEvent and verifyEvidenceHash on an id that is not registered  *)
(* revert with "Evidence does not exist" even for an empty investigator id *)
(* or action and for every index.  An outcome handed to a caller agrees.   *)
C26_ExistenceChecksFirst ==
  /\ \A id \in Ids, hash \in RegHashes :
       LET r == registerEvidenceRequire(evidenceExists, id, hash)
       IN  /\ evidenceExists[id] => r = ErrAlready
           /\ (id = EMPTY /\ Len(hash) # HashLen) => r = ErrEmptyId
  /\ \A id \in Ids :
       ~evidenceExists[id] =>
         /\ \A inv \in Investigators, act \in Actions :
              addCustodyEventRequire(evidenceExists, id, inv, act) = ErrNotExist
         /\ \A index \in Indexes :
              getCustodyEvent(custodyChain, evidenceExists, id, index).result
                = ErrNotExist
         /\ \A hash \in {HA, HShort} :
              verifyEvidenceHash(evidences, evidenceExists, id, hash).result
                = ErrNotExist
  /\ (last.op = "registerEvidence" /\ Len(last.args.evidenceHash) # HashLen) =>
       last.result = IF evidenceExists[last.args.evidenceId] THEN ErrAlready
                     ELSE IF last.args.evidenceId = EMPTY THEN ErrEmptyId
                     ELSE ErrHash
  /\ (last.op \in {"addCustodyEvent", "getCustodyEvent", "verifyEvidenceHash"}
        /\ ~evidenceExists[last.args.evidenceId]) =>
       last.result = ErrNotExist

C26_Witness ==
  /\ last.op = "registerEvidence"
  /\ last.result = ErrAlready
  /\ Len(last.args.evidenceHash) # HashLen
  /\ \E id \in ReadIds : ~evidenceExists[id]

(* C27: in every reachable state, for every registered id the custody      *)
(* event at index 0 has the timestamp, the investigator id and the action  *)
(* of the id's record, and the remarks "Evidence registered".              *)
C27_FirstEventAgreesWithRecord ==
  \A id \in Ids :
    evidenceExists[id] =>
      /\ Len(custodyChain[id]) >= 1
      /\ custodyChain[id][1] =
           [timestamp |-> evidences[id].timestamp,
            investigatorId |-> evidences[id].investigatorId,
            action |-> evidences[id].action,
            remarks |-> RegisteredRemark]

C27_Witness ==
  \E id \in Ids :
    /\ evidenceExists[id]
    /\ evidences[id].timestamp < now
    /\ evidences[id].investigatorId # EMPTY
    /\ Len(custodyChain[id]) = 3
    /\ custodyChain[id][3].timestamp = now
    /\ custodyChain[id][1].timestamp = evidences[id].timestamp

(* C28, as stated: in every reachable state every stored custody event,    *)
(* the one pushed by registerEvidence included, has a non-empty            *)
(* investigatorId and a non-empty action.                                  *)
C28_CustodyEventsNamed ==
  \A id \in Ids :
    \A k \in 1..Len(custodyChain[id]) :
      /\ custodyChain[id][k].investigatorId # EMPTY
      /\ custodyChain[id][k].action # EMPTY

(* C22: a run of verifyEvidenceOnChain, whatever the wallet answers and    *)
(* whether the id is registered or not, invokes no contract method other   *)
(* than getEvidence, and that one at most once, and leaves every record,   *)
(* flag, custody list and the event log as they were.                      *)
C22_ClientReadPathReadOnly ==
  [][(last = Idle /\ last'.op = "verifyEvidenceOnChain") =>
       LET calls == last'.ret.contractCalls
       IN  /\ Len(calls) <= 1
           /\ \A k \in 1..Len(calls) : calls[k] = "getEvidence"
           /\ ledger' = ledger]_vars

C22_Witness ==
  /\ last.op = "verifyEvidenceOnChain"
  /\ last.result = OK
  /\ last.ret.contractCalls = <<"getEvidence">>
  /\ last.ret.value.ret.evidenceHash = evidences[last.args.evidenceId].evidenceHash
  /\ Len(log) = 2

(* C23: when verifyEvidence has sent its request and got an answer, the    *)
(* result box reads "Evidence Verified" exactly when the id is registered  *)
(* and the typed hash equals the stored one (and then the answer has       *)
(* status "success" and is_valid true), "Verification Failed" exactly when *)
(* the id is registered and the hash differs, and for an id that is not    *)
(* registered it reads "Error" with the text "Evidence does not exist".    *)
C23_VerificationOutcomesDistinct ==
  (last.op = "verifyEvidence" /\ last.ret.data # NoRet) =>
    LET id == last.args.evidenceId
        box == last.ret.box
        data == last.ret.data
        registered == evidenceExists[id]
        same == evidences[id].evidenceHash = last.args.hash
    IN  /\ (box.heading = "Evidence Verified") <=> (registered /\ same)
        /\ (box.heading = "Verification Failed") <=> (registered /\ ~same)
        /\ ~registered => (box.heading = "Error" /\ box.text = ErrNotExist)
        /\ (box.heading = "Evidence Verified") =>
             (data.status = "success" /\ data.is_valid)

C23_Witness ==
  /\ last.op = "verifyEvidence"
  /\ last.ret.data # NoRet
  /\ last.ret.box.heading = "Error"
  /\ ~evidenceExists[last.args.evidenceId]
  /\ \E id \in ReadIds : evidenceExists[id] /\ evidences[id].evidenceHash = last.args.hash

(* A handler call of the page that sends its request in this step *)
Sent(fn) == \E c \in pending' \ pending : c.fn = fn

(* A handler call of the page that runs to its end in this step *)
Finished(fn) == \E c \in pending \ pending' : c.fn = fn

(* C24: registerBlockchain sends POST /api/register-blockchain only when   *)
(* currentSession is non-null, and currentSession is non-null only after   *)
(* some startForensics call of this page has received a response with      *)
(* status 'success'; a registerBlockchain call with a null currentSession   *)
(* opens the alert, sends no request and changes no button.                *)
C24_RegistrationNeedsSession ==
  /\ [](currentSession => <<"startForensics", "success">> \in received)
  /\ [][Sent("registerBlockchain") =>
          /\ currentSession
          /\ <<"startForensics", "success">> \in received]_vars
  /\ [][(~disabled["blockchainBtn"] /\ alerted = NoAlert /\ ~currentSession)
          => /\ ~Sent("registerBlockchain")
             /\ (alerted' = "Please run forensics first"
                   => /\ pending' = pending
                      /\ disabled' = disabled
                      /\ intervals' = intervals)]_vars

C24_Witness ==
  /\ \E c \in pending : c.fn = "registerBlockchain"
  /\ currentSession
  /\ <<"checkSessionStatus", "blockchain_registered">> \in received

(* The page has been told that the evidence is registered *)
RegistrationKnown ==
  \/ <<"registerBlockchain", "success">> \in received
  \/ <<"checkSessionStatus", "blockchain_registered">> \in received

(* C25: with the report button disabled at load and generateReport run     *)
(* only from the enabled button, POST /api/generate-report is sent only     *)
(* after the page has received a register-blockchain response with status   *)
(* 'success' or a session-status response with blockchain_registered true;  *)
(* a registerBlockchain call that ends with an error status or a failure    *)
(* leaves the report button as it was.                                      *)
C25_ReportNeedsRegistration ==
  /\ [](~disabled["reportBtn"] => RegistrationKnown)
  /\ [][Sent("generateReport") => RegistrationKnown]_vars
  /\ [][(/\ Finished("registerBlockchain")
         /\ handled'.resp \in {"error", "throw"})
          => disabled'["reportBtn"] = disabled["reportBtn"]]_vars

C25_Witness ==
  /\ \E c \in pending : c.fn = "generateReport"
  /\ handled.fn = "registerBlockchain"
  /\ handled.resp = "error"
  /\ disabled["reportBtn"]

(* The register-blockchain requests that are in flight *)
RegistrationsInFlight == {c \in pending : c.fn = "registerBlockchain"}

(* C29: while a registerBlockchain call is between disabling its button    *)
(* and the end of its response handling, the register button stays         *)
(* disabled whatever the other handlers do, so at most one                 *)
(* POST /api/register-blockchain is in flight.                             *)
C29_OneRegistrationAtATime ==
  /\ RegistrationsInFlight # {} => disabled["blockchainBtn"]
  /\ Cardinality(RegistrationsInFlight) <= 1

(* The handlers that start interval timers *)
TimedHandlers == {"startForensics", "generateReport"}

(* C30: a startForensics or generateReport call that started interval      *)
(* timers has cleared every one of them when it finishes, whether its       *)
(* request came back with status 'success', with another status or not at   *)
(* all, and has enabled its own button again; no interval timer outlives    *)
(* the handler call that started it, so none can fire after it.             *)
C30_TimersClearedAtEnd ==
  /\ [](\A t \in intervals : \E c \in pending : c.id = t.call)
  /\ [][\A c \in pending \ pending' :
          c.fn \in TimedHandlers =>
            /\ ~disabled'[ownButton(c.fn)]
            /\ \A t \in intervals' : t.call # c.id]_vars

C30_Witness ==
  /\ handled.fn = "startForensics"
  /\ handled.resp = "throw"
  /\ script = "web3-main.js"
  /\ \A t \in intervals : t.call # handled.id
  /\ \E t \in intervals : t.ticks > 0
  /\ ~disabled["startBtn"]

====
